---- MODULE Spec2Model ----
(***************************************************************************)
(* A model of pi-camera-go: the segment store (server/storage), the        *)
(* capture monitor (server/recorder) and the way the server wires them.    *)
(*                                                                         *)
(* File names are sequences of tokens.  A token is one character ("_",     *)
(* ".", a digit, a sign) or one of the fixed words "segment", "ts", "x",   *)
(* "notes", which stand for the letters they are written with; no          *)
(* operation of the program looks inside those words.                      *)
(***************************************************************************)
EXTENDS Integers, Sequences, FiniteSets, TLC

\* ------------------------------------------------------------------------
\* Bounds of the model
\* ------------------------------------------------------------------------
\* highest segment id AddSegment is allowed to allocate
MaxID == 4
\* highest id among the segment files the directory may hold at first start
MaxInitID == 2
\* creation times (unix seconds) handed to AddSegment are 1..MaxTime
MaxTime == 1
\* counts handed to LatestSegments are 0..MaxCount
MaxCount == 3

\* capture sessions Start may launch
MaxSessions == 2
\* chunks the capture processes may begin
MaxChunks == 3
\* raw chunks a process that ended uncleanly has left in the directory
MaxLeftover == 1

\* the numbers put in a file name are 0..MaxField
MaxField == 11

\* a playlist window holds at most MaxWindow segments
MaxWindow == 3
\* with ids in 0..MaxWindowID
MaxWindowID == 3
\* and durations of 0..MaxHalfSeconds half seconds
MaxHalfSeconds == 3

\* the recorder's nominal chunk duration, in milliseconds (5 * time.Second)
SegmentDurationMs == 5000

\* time.Second, in milliseconds
SecondMs == 1000

Nil == 0

\* ------------------------------------------------------------------------
\* strconv / fmt / strings on token sequences
\* ------------------------------------------------------------------------
Digits == <<"0", "1", "2", "3", "4", "5", "6", "7", "8", "9">>

IsDigit(c) == \E i \in 1..10 : Digits[i] = c

DigitVal(c) == (CHOOSE i \in 1..10 : Digits[i] = c) - 1

\* fmt's %d of a non-negative integer
RECURSIVE FormatNat(_)
FormatNat(n) == IF n < 10 THEN <<Digits[n + 1]>>
                ELSE FormatNat(n \div 10) \o <<Digits[(n % 10) + 1]>>

\* fmt's %d
FormatInt(n) == IF n < 0 THEN <<"-">> \o FormatNat(0 - n) ELSE FormatNat(n)

RECURSIVE DigitsValue(_)
DigitsValue(s) == IF s = <<>> THEN 0
                  ELSE 10 * DigitsValue(SubSeq(s, 1, Len(s) - 1)) + DigitVal(s[Len(s)])

\* strconv.Atoi: an optional sign, then one or more digits
Atoi(s) ==
  LET signed == s # <<>> /\ s[1] \in {"+", "-"}
      body   == IF signed THEN Tail(s) ELSE s
      ok     == body # <<>> /\ \A i \in 1..Len(body) : IsDigit(body[i])
  IN  [ok  |-> ok,
       val |-> IF ~ok THEN 0
               ELSE IF signed /\ s[1] = "-" THEN 0 - DigitsValue(body)
               ELSE DigitsValue(body)]

\* strings.Split(s, sep) for a one-token separator: the scan is at token i
\* of s, and the piece it is in began at token start
RECURSIVE SplitFrom(_, _, _, _)
SplitFrom(s, sep, start, i) ==
  IF i > Len(s) THEN <<SubSeq(s, start, Len(s))>>
  ELSE IF s[i] = sep
       THEN <<SubSeq(s, start, i - 1)>> \o SplitFrom(s, sep, i + 1, i + 1)
       ELSE SplitFrom(s, sep, start, i + 1)

Split(s, sep) == SplitFrom(s, sep, 1, 1)

\* the byte order of the tokens (ASCII; a word by its first letter)
Alphabet == <<"+", "-", ".", "0", "1", "2", "3", "4", "5", "6", "7", "8", "9",
              "_", "notes", "segment", "ts", "x">>

Ord(c) == CHOOSE i \in 1..Len(Alphabet) : Alphabet[i] = c

\* a < b as Go compares strings, given that they agree before token i
RECURSIVE NameLessFrom(_, _, _)
NameLessFrom(a, b, i) ==
  IF i > Len(b) THEN FALSE
  ELSE IF i > Len(a) THEN TRUE
  ELSE IF a[i] = b[i] THEN NameLessFrom(a, b, i + 1)
  ELSE Ord(a[i]) < Ord(b[i])

NameLess(a, b) == NameLessFrom(a, b, 1)

\* ------------------------------------------------------------------------
\* State
\* ------------------------------------------------------------------------
VARIABLES
  \* --- server/storage: storageImpl and its directory
  segmentDir,      \* files of the segment directory: [name, full]; full is
                   \* whether the file holds the whole of its source
  segments,        \* storageImpl.segments: id -> Segment
  lastSegmentID,   \* storageImpl.lastSegmentID
  unsignedID,      \* whether storage.SegmentID is an unsigned integer type
  apc,             \* per AddSegment caller: where it is in addSegment
  asegmentID,      \* addSegment's local segmentID
  asegment,        \* addSegment's local segment (name, time, duration)
  \* --- what the store's callers saw (history)
  entry,           \* lastSegmentID and segments when the call was made
  ret,             \* "none", "ok" or "err": how the caller's last call ended
  assigned,        \* ids of the successful AddSegment calls since New, in order
  loaded,          \* ids New parsed from the directory; emptyDir: it was empty
  latest           \* the LatestSegments call made in the step just taken, if
                   \* that step was one: [count, called, result]

storeVars == <<segmentDir, segments, lastSegmentID, unsignedID, apc, asegmentID, asegment,
               entry, ret, assigned, loaded, latest>>

VARIABLES
  \* --- server/recorder: recorderImpl, its directory and its processes
  cancelFunc,      \* recorderImpl.cancelFunc: Nil, or the session it cancels
  cmd,             \* recorderImpl.cmd: Nil, or the session whose process it is
  subscribers,     \* recorderImpl.subscribers
  started,         \* number of capture sessions launched so far
  alive,           \* the sessions whose raspivid process is running
  cancelled,       \* the sessions whose context has been cancelled
  rawFiles,        \* the .h264 chunks of the recorder directory, by number
  tsFiles,         \* the .ts files of the recorder directory, by chunk number
  written,         \* number of chunks the capture processes have begun
  loop,            \* per session: its checkFilesLoop goroutine [pc, todo]
  cpc,             \* where the goroutine calling Start and Stop is
  clist,           \* deleteFiles' listing
  lcancel,         \* Stop's local cancelFunc
  lcmd,            \* Stop's local cmd
  \* --- what happened (history)
  pass,            \* per session: what the drain pass its loop is in has done
  converted,       \* the chunks ffmpeg has converted
  delivered,       \* per subscriber and chunk: number of VideoRecorded calls
  stopReturned     \* the sessions whose Stop has returned

recVars == <<cancelFunc, cmd, subscribers, started, alive, cancelled, rawFiles,
             tsFiles, written, loop, cpc, clist, lcancel, lcmd, pass,
             converted, delivered, stopReturned>>

VARIABLES
  \* --- server: one request for the live playlist
  window,          \* the segments serveLivePlaylist has from LatestSegments
  manifest,        \* the lines written to the response, in order
  contentType      \* the Content-Type header of the response

plVars == <<window, manifest, contentType>>

VARIABLES
  \* --- server/storage: one file name built and parsed
  fields,          \* the creation time (s), duration (ms) and id to encode
  fileName,        \* the name addSegment builds of them (<<>>: not yet)
  parsed           \* what segmentFromFileName makes of it: [done, err, segment]

rtVars == <<fields, fileName, parsed>>

\* the variables of the parts that are functions of their input
pureVars == <<plVars, rtVars>>

vars == <<storeVars, recVars, plVars, rtVars>>

\* goroutines that may call AddSegment
NumAdders == 2
Adders == 1..NumAdders
\* the drain loop, the store's only writer when one capture session runs
Writer == CHOOSE a \in Adders : \A b \in Adders : a <= b

Times == 1..MaxTime
Durations == {SegmentDurationMs}
Counts == 0..MaxCount

\* ------------------------------------------------------------------------
\* server/storage
\* ------------------------------------------------------------------------
\* the name with the duration and the id in each other's place
SegmentName_swapped(time, durationMs, id) ==
  <<"segment", "_">> \o FormatInt(time) \o <<"_">> \o FormatInt(id)
      \o <<"_">> \o FormatInt(durationMs) \o <<".", "ts">>

\* fmt.Sprintf("segment_%d_%d_%d.ts", time, durationMs, id)
SegmentName(time, durationMs, id) ==
  <<"segment", "_">> \o FormatInt(time) \o <<"_">> \o FormatInt(durationMs)
      \o <<"_">> \o FormatInt(id) \o <<".", "ts">>

NoSegment == [ID |-> 0, Name |-> <<>>, Time |-> 0, Duration |-> 0]

\* the end of segmentFromFileName, the three fields converted by Atoi
segmentFromFields(name, segmentTime, segmentDuration, segmentID) ==
  IF ~segmentTime.ok \/ ~segmentDuration.ok \/ ~segmentID.ok
  THEN [err |-> TRUE, segment |-> NoSegment]
  ELSE [err |-> FALSE,
        segment |-> [ID       |-> segmentID.val,
                     Name     |-> name,
                     Time     |-> segmentTime.val,
                     Duration |-> segmentDuration.val]]

\* segmentFromFileName, name split into parts
segmentFromParts(name, parts) ==
  IF Len(parts) # 4 \/ parts[1] # <<"segment">>
  THEN [err |-> TRUE, segment |-> NoSegment]
  ELSE segmentFromFields(name, Atoi(parts[2]), Atoi(parts[3]), Atoi(parts[4]))

segmentFromFileName(name) ==
  segmentFromParts(name, Split(Split(name, ".")[1], "_"))

\* m with m[id] = segment
MapPut(m, id, segment) ==
  [i \in DOMAIN m \cup {id} |-> IF i = id THEN segment ELSE m[i]]

\* one turn of loadSegments' loop, r being segmentFromFileName's answer for
\* the file.  ioutil.ReadDir lists the directory sorted by file name, so of
\* the files of one id the map ends with the one whose name comes last:
\* taken in any order, a file replaces only a name that sorts before its own.
loadOne(r, l) ==
  IF r.err THEN l
  ELSE [segments |->
          IF r.segment.ID \in DOMAIN l.segments
             /\ NameLess(r.segment.Name, l.segments[r.segment.ID].Name)
          THEN l.segments
          ELSE MapPut(l.segments, r.segment.ID, r.segment),
        lastSegmentID |->
          IF r.segment.ID > l.lastSegmentID THEN r.segment.ID
          ELSE l.lastSegmentID]

RECURSIVE loadLoop(_, _)
loadLoop(names, l) ==
  IF names = {} THEN l
  ELSE LET n == CHOOSE m \in names : TRUE
       IN  loadLoop(names \ {n}, loadOne(segmentFromFileName(n), l))

loadSegments(dir) ==
  loadLoop({f.name : f \in dir}, [segments |-> <<>>, lastSegmentID |-> 0])

\* New as it would be if it kept loadSegments' highest id as it is
NewStore_noGap(l) ==
  [segments |-> l.segments, lastSegmentID |-> l.lastSegmentID]

\* the fields New gives the store, l being what loadSegments returned
NewStore(l) ==
  [segments |-> l.segments, lastSegmentID |-> l.lastSegmentID + 1]

\* the loop of LatestSegments, from segmentID up to last
RECURSIVE latestLoop(_, _, _)
latestLoop(segmentID, last, segs) ==
  IF segmentID > last THEN <<>>
  ELSE (IF segmentID \in DOMAIN segs THEN <<segs[segmentID]>> ELSE <<>>)
       \o latestLoop(segmentID + 1, last, segs)

\* The declaration of storage.SegmentID is not among the sources.  Where it
\* is an unsigned type, lastSegmentID - SegmentID(count) + 1 wraps to a
\* value above lastSegmentID when count exceeds lastSegmentID + 1, and the
\* loop's condition is false at once.
Wraps(first) == unsignedID /\ first < 0

\* LatestSegments with a window that begins one id too early
LatestSegments_long(count) ==
  IF Wraps(lastSegmentID - count) THEN <<>>
  ELSE latestLoop(lastSegmentID - count, lastSegmentID, segments)

\* LatestSegments with a window that ends one id too early
LatestSegments_stale(count) ==
  IF Wraps(lastSegmentID - count) THEN <<>>
  ELSE latestLoop(lastSegmentID - count, lastSegmentID - 1, segments)

LatestSegments(count) ==
  IF Wraps(lastSegmentID - count + 1) THEN <<>>
  ELSE latestLoop(lastSegmentID - count + 1, lastSegmentID, segments)

NoCall == [count |-> 0, called |-> FALSE, result |-> <<>>]

\* the file of dir named name, as a set (empty when there is none)
FilesNamed(dir, name) == {f \in dir : f.name = name}

\* os.Create(path): the file exists and is empty
Create(dir, name) ==
  (dir \ FilesNamed(dir, name)) \cup {[name |-> name, full |-> FALSE]}

\* io.Copy ran to the end of the source
CopyAll(dir, name) ==
  (dir \ FilesNamed(dir, name)) \cup {[name |-> name, full |-> TRUE]}

\* addSegment as it would be if it took the id by advancing lastSegmentID
\* when it generates the name
addSegmentCreate_bumps(a, created, duration, o) ==
  /\ apc[a] = "idle"
  /\ lastSegmentID < MaxID
  /\ entry' = [entry EXCEPT ![a] =
                 [lastSegmentID |-> lastSegmentID, segments |-> segments]]
  /\ IF o # "ok"
     THEN /\ ret' = [ret EXCEPT ![a] = "err"]
          /\ UNCHANGED <<segmentDir, apc, asegmentID, asegment, lastSegmentID>>
     ELSE LET segmentID   == lastSegmentID + 1
              segmentName == SegmentName(created, duration, segmentID)
          IN  /\ segmentDir' = Create(segmentDir, segmentName)
              /\ lastSegmentID' = segmentID
              /\ asegmentID' = [asegmentID EXCEPT ![a] = segmentID]
              /\ asegment' = [asegment EXCEPT ![a] =
                                [ID       |-> segmentID,
                                 Name     |-> segmentName,
                                 Time     |-> created,
                                 Duration |-> duration]]
              /\ apc' = [apc EXCEPT ![a] = "copy"]
              /\ ret' = [ret EXCEPT ![a] = "none"]
  /\ latest' = NoCall
  /\ UNCHANGED <<unsignedID, recVars, pureVars>>
  /\ UNCHANGED <<segments, assigned, loaded>>

\* addSegment, from its entry to os.Create (lines 146-171).  o is what the
\* file system answers: "openErr", "statErr", "createErr" or "ok".
addSegmentCreate(a, created, duration, o) ==
  /\ apc[a] = "idle"
  /\ lastSegmentID < MaxID
  /\ entry' = [entry EXCEPT ![a] =
                 [lastSegmentID |-> lastSegmentID, segments |-> segments]]
  /\ IF o # "ok"
     THEN /\ ret' = [ret EXCEPT ![a] = "err"]
          /\ UNCHANGED <<segmentDir, apc, asegmentID, asegment>>
     ELSE LET segmentID   == lastSegmentID + 1
              segmentName == SegmentName(created, duration, segmentID)
          IN  /\ segmentDir' = Create(segmentDir, segmentName)
              /\ asegmentID' = [asegmentID EXCEPT ![a] = segmentID]
              /\ asegment' = [asegment EXCEPT ![a] =
                                [ID       |-> segmentID,
                                 Name     |-> segmentName,
                                 Time     |-> created,
                                 Duration |-> duration]]
              /\ apc' = [apc EXCEPT ![a] = "copy"]
              /\ ret' = [ret EXCEPT ![a] = "none"]
  /\ latest' = NoCall
  /\ UNCHANGED <<unsignedID, recVars, pureVars>>
  /\ UNCHANGED <<segments, lastSegmentID, assigned, loaded>>

\* addSegment as it would be if it put the segment in the index as soon as
\* the copy is done, before it takes the lock and sets lastSegmentID
addSegmentCopy_indexes(a, o) ==
  /\ apc[a] = "copy"
  /\ IF o = "ok"
     THEN /\ segmentDir' = CopyAll(segmentDir, asegment[a].Name)
          /\ segments' = MapPut(segments, asegmentID[a], asegment[a])
          /\ apc' = [apc EXCEPT ![a] = "commit"]
          /\ UNCHANGED ret
     ELSE /\ apc' = [apc EXCEPT ![a] = "idle"]
          /\ ret' = [ret EXCEPT ![a] = "err"]
          /\ UNCHANGED <<segmentDir, segments>>
  /\ latest' = NoCall
  /\ UNCHANGED <<unsignedID, recVars, pureVars>>
  /\ UNCHANGED <<lastSegmentID, asegmentID, asegment, entry, assigned, loaded>>

\* addSegment's io.Copy and its check of the byte count (lines 172-176).
\* o is "copyErr" (the copy fails part-way), "short" (it ends without an
\* error before the end of the source) or "ok".
addSegmentCopy(a, o) ==
  /\ apc[a] = "copy"
  /\ IF o = "ok"
     THEN /\ segmentDir' = CopyAll(segmentDir, asegment[a].Name)
          /\ apc' = [apc EXCEPT ![a] = "commit"]
          /\ UNCHANGED ret
     ELSE /\ apc' = [apc EXCEPT ![a] = "idle"]
          /\ ret' = [ret EXCEPT ![a] = "err"]
          /\ UNCHANGED segmentDir
  /\ latest' = NoCall
  /\ UNCHANGED <<unsignedID, recVars, pureVars>>
  /\ UNCHANGED <<segments, lastSegmentID, asegmentID, asegment, entry,
                 assigned, loaded>>

\* addSegment's critical section as it would be without line 179
addSegmentCommit_keepsLast(a) ==
  /\ apc[a] = "commit"
  /\ segments' = MapPut(segments, asegmentID[a], asegment[a])
  /\ assigned' = Append(assigned, asegmentID[a])
  /\ apc' = [apc EXCEPT ![a] = "idle"]
  /\ ret' = [ret EXCEPT ![a] = "ok"]
  /\ latest' = NoCall
  /\ UNCHANGED <<unsignedID, recVars, pureVars>>
  /\ UNCHANGED <<segmentDir, lastSegmentID, asegmentID, asegment, entry, loaded>>

\* addSegment's critical section and its return (lines 178-191)
addSegmentCommit(a) ==
  /\ apc[a] = "commit"
  /\ lastSegmentID' = asegmentID[a]
  /\ segments' = MapPut(segments, asegmentID[a], asegment[a])
  /\ assigned' = Append(assigned, asegmentID[a])
  /\ apc' = [apc EXCEPT ![a] = "idle"]
  /\ ret' = [ret EXCEPT ![a] = "ok"]
  /\ latest' = NoCall
  /\ UNCHANGED <<unsignedID, recVars, pureVars>>
  /\ UNCHANGED <<segmentDir, asegmentID, asegment, entry, loaded>>

\* a call of LatestSegments(count), the whole of it under the mutex
LatestSegmentsCall(count) ==
  /\ latest' = [count |-> count, called |-> TRUE,
                result |-> LatestSegments(count)]
  /\ UNCHANGED <<segmentDir, segments, lastSegmentID, apc, asegmentID,
                 asegment, entry, ret, assigned, loaded, unsignedID, recVars,
                 pureVars>>

\* what the model remembers of a construction: the ids New found in the
\* directory, the highest of them, and whether the directory was empty
Loaded(dir, l) ==
  [ids |-> DOMAIN l.segments, max |-> l.lastSegmentID, empty |-> dir = {}]

\* New, having loaded l from dir and built the store s
StorageNewWith(dir, l, s) ==
  /\ segments' = s.segments
  /\ lastSegmentID' = s.lastSegmentID
  /\ apc' = [a \in Adders |-> "idle"]
  /\ asegmentID' = [a \in Adders |-> 0]
  /\ asegment' = [a \in Adders |-> NoSegment]
  /\ entry' = [a \in Adders |->
                 [lastSegmentID |-> s.lastSegmentID, segments |-> s.segments]]
  /\ ret' = [a \in Adders |-> "none"]
  /\ assigned' = <<>>
  /\ loaded' = Loaded(dir, l)
  /\ latest' = NoCall
  /\ UNCHANGED <<unsignedID, recVars, pureVars>>

StorageNewLoaded(dir, l) == StorageNewWith(dir, l, NewStore(l))

\* New: loadSegments, then the store
StorageNew(dir) == StorageNewLoaded(dir, loadSegments(dir))

\* the process, ended while no AddSegment call was running, starts again:
\* New builds the store from the directory as it is
Restart ==
  /\ \A a \in Adders : apc[a] = "idle"
  /\ StorageNew(segmentDir)
  /\ UNCHANGED segmentDir

\* directories the first start may find: whole segment files with ids up to
\* MaxInitID, a file whose time field is no number, a file of another name
JunkFiles == {<<"segment", "_", "x", "_", "5", "0", "0", "0", "_", "9", ".", "ts">>,
              <<"notes", ".", "ts">>}

InitFiles ==
  {[name |-> SegmentName(1, SegmentDurationMs, i), full |-> TRUE] : i \in 1..MaxInitID}
    \cup {[name |-> n, full |-> TRUE] : n \in JunkFiles}

Sessions == 1..MaxSessions
Chunks == 1..MaxChunks
\* what may be registered with AddSubscriber: the segment store
Subscribers == {"storage"}

NoPass == [listed |-> <<>>, converted |-> <<>>, published |-> <<>>,
           rawGone |-> {}, tsGone |-> {}]

\* recorder.New: no session, no subscriber, and a recorder directory with
\* the raw chunks in raw, left by a process before
RecorderNew(raw) ==
  /\ cancelFunc = Nil
  /\ cmd = Nil
  /\ subscribers = <<>>
  /\ started = 0
  /\ alive = {}
  /\ cancelled = {}
  /\ rawFiles = raw
  /\ tsFiles = {}
  /\ written = Cardinality(raw)
  /\ loop = [s \in Sessions |-> [pc |-> "none", todo |-> <<>>]]
  /\ cpc = "idle"
  /\ clist = <<>>
  /\ lcancel = Nil
  /\ lcmd = Nil
  /\ pass = [s \in Sessions |-> NoPass]
  /\ converted = {}
  /\ delivered = [sub \in Subscribers |-> [c \in Chunks |-> 0]]
  /\ stopReturned = {}

NotParsed == [done |-> FALSE, err |-> FALSE, segment |-> NoSegment]

\* no name is being built
NoName ==
  /\ fields = [time |-> 0, durationMs |-> 0, id |-> 0]
  /\ fileName = <<>>
  /\ parsed = NotParsed

\* no playlist has been asked for
NoRequest ==
  /\ window = <<>>
  /\ manifest = <<>>
  /\ contentType = ""

StoreInitWith(dir, l, s) ==
  /\ segments = s.segments
  /\ lastSegmentID = s.lastSegmentID
  /\ entry = [a \in Adders |->
                [lastSegmentID |-> s.lastSegmentID, segments |-> s.segments]]
  /\ apc = [a \in Adders |-> "idle"]
  /\ asegmentID = [a \in Adders |-> 0]
  /\ asegment = [a \in Adders |-> NoSegment]
  /\ ret = [a \in Adders |-> "none"]
  /\ assigned = <<>>
  /\ loaded = Loaded(dir, l)
  /\ latest = NoCall

StoreInitLoaded(dir, l) == StoreInitWith(dir, l, NewStore(l))

StoreInit ==
  /\ unsignedID \in BOOLEAN
  /\ segmentDir \in SUBSET InitFiles
  /\ StoreInitLoaded(segmentDir, loadSegments(segmentDir))
  /\ RecorderNew({})
  /\ NoRequest
  /\ NoName

\* one drain loop publishes, requests read at any time, the process may be
\* ended and started again between two AddSegment calls
StoreNext ==
  \/ \E t \in Times, d \in Durations,
        o \in {"openErr", "statErr", "createErr", "ok"} :
       addSegmentCreate(Writer, t, d, o)
  \/ \E o \in {"copyErr", "short", "ok"} : addSegmentCopy(Writer, o)
  \/ addSegmentCommit(Writer)
  \/ \E k \in Counts : LatestSegmentsCall(k)
  \/ Restart

StoreSpec == StoreInit /\ [][StoreNext]_vars

\* the store with several goroutines in AddSegment at a time, as when two
\* drain loops publish to it: each call reads lastSegmentID for its id
\* without the lock (line 162) and takes the lock only for its last step
ConcNext ==
  \/ \E a \in Adders, t \in Times, d \in Durations,
        o \in {"openErr", "statErr", "createErr", "ok"} :
       addSegmentCreate(a, t, d, o)
  \/ \E a \in Adders, o \in {"copyErr", "short", "ok"} : addSegmentCopy(a, o)
  \/ \E a \in Adders : addSegmentCommit(a)
  \/ \E k \in Counts : LatestSegmentsCall(k)

ConcSpec == StoreInit /\ [][ConcNext]_vars

\* ------------------------------------------------------------------------
\* server/recorder
\* ------------------------------------------------------------------------
\* ioutil.ReadDir's .h264 names: the chunk numbers are zero-padded to one
\* width, so the order of the names is the order of the numbers
Listing(files) ==
  [i \in 1..Cardinality(files) |->
     CHOOSE c \in files : Cardinality({d \in files : d < c}) = i - 1]

Range(seq) == {seq[i] : i \in 1..Len(seq)}

\* the range of checkFiles' loop as it would be over files[:filesLen]
AllButNewest_all(files) == files

\* files[:filesLen-1]
AllButNewest(files) == SubSeq(files, 1, Len(files) - 1)

\* the program has not died of a panic
Running == cpc # "panic"

\* checkFilesLoop's condition finds r.cmd nil and the goroutine ends
\* (line 162).  The read of r.cmd is not synchronised with Start and Stop;
\* the loop calls functions in every turn, so each test loads the field again
\* and sees what it holds then.
LoopExit(s) ==
  /\ Running
  /\ loop[s].pc = "test"
  /\ cmd = Nil
  /\ loop' = [loop EXCEPT ![s].pc = "exited"]
  /\ pass' = [pass EXCEPT ![s] = NoPass]
  /\ UNCHANGED <<cancelFunc, cmd, subscribers, started, alive, cancelled,
                 rawFiles, tsFiles, written, cpc, clist, lcancel, lcmd,
                 converted, delivered, stopReturned>>
  /\ UNCHANGED <<storeVars, pureVars>>

\* checkFilesLoop's condition finds r.cmd set (line 162), and checkFiles
\* lists the directory and chooses its files (lines 120-137)
LoopList(s) ==
  /\ Running
  /\ loop[s].pc = "test"
  /\ cmd # Nil
  /\ LET files == Listing(rawFiles)
     IN  IF Len(files) < 2
         THEN /\ loop' = [loop EXCEPT ![s] = [pc |-> "test", todo |-> <<>>]]
              /\ pass' = [pass EXCEPT ![s] = NoPass]
         ELSE /\ loop' = [loop EXCEPT ![s] =
                            [pc |-> "mux", todo |-> AllButNewest(files)]]
              /\ pass' = [pass EXCEPT ![s] = [NoPass EXCEPT !.listed = files]]
  /\ UNCHANGED <<cancelFunc, cmd, subscribers, started, alive, cancelled,
                 rawFiles, tsFiles, written, cpc, clist, lcancel, lcmd,
                 converted, delivered, stopReturned>>
  /\ UNCHANGED <<storeVars, pureVars>>

\* muxFile as it would be without its os.Remove of the input file
LoopMuxFile_keepsInput(s, o) ==
  /\ Running
  /\ loop[s].pc = "mux"
  /\ LET cur == Head(loop[s].todo)
     IN  IF o = "ok"
         THEN /\ cur \in rawFiles
              /\ tsFiles' = tsFiles \cup {cur}
              /\ converted' = converted \cup {cur}
              /\ pass' = [pass EXCEPT ![s].converted = Append(@, cur)]
              /\ loop' = [loop EXCEPT ![s].pc = "notify"]
         ELSE /\ IF o = "removeErr"
                 THEN /\ cur \in rawFiles
                      /\ tsFiles' = tsFiles \cup {cur}
                      /\ converted' = converted \cup {cur}
                 ELSE UNCHANGED <<tsFiles, converted>>
              /\ pass' = [pass EXCEPT ![s] = NoPass]
              /\ loop' = [loop EXCEPT ![s] = [pc |-> "test", todo |-> <<>>]]
  /\ UNCHANGED <<cancelFunc, cmd, subscribers, started, alive, cancelled,
                 rawFiles, written, cpc, clist, lcancel, lcmd, delivered,
                 stopReturned>>
  /\ UNCHANGED <<storeVars, pureVars>>

\* muxFile (lines 70-97), called for the first file left to do.  o is how it
\* ends: "ok", "fail" when ffmpeg fails (line 84; it cannot succeed on an
\* input that is not there), "removeErr" when ffmpeg has written its output
\* and the os.Remove of the input fails (lines 89-91).
LoopMuxFile(s, o) ==
  /\ Running
  /\ loop[s].pc = "mux"
  /\ LET cur == Head(loop[s].todo)
     IN  IF o = "ok"
         THEN /\ cur \in rawFiles
              /\ tsFiles' = tsFiles \cup {cur}
              /\ converted' = converted \cup {cur}
              /\ rawFiles' = rawFiles \ {cur}
              /\ pass' = [pass EXCEPT ![s].converted = Append(@, cur),
                                      ![s].rawGone = @ \cup {cur}]
              /\ loop' = [loop EXCEPT ![s].pc = "notify"]
         ELSE /\ IF o = "removeErr"
                 THEN /\ cur \in rawFiles
                      /\ tsFiles' = tsFiles \cup {cur}
                      /\ converted' = converted \cup {cur}
                 ELSE UNCHANGED <<tsFiles, converted>>
              /\ pass' = [pass EXCEPT ![s] = NoPass]
              /\ loop' = [loop EXCEPT ![s] = [pc |-> "test", todo |-> <<>>]]
              /\ UNCHANGED rawFiles
  /\ UNCHANGED <<cancelFunc, cmd, subscribers, started, alive, cancelled,
                 written, cpc, clist, lcancel, lcmd, delivered, stopReturned>>
  /\ UNCHANGED <<storeVars, pureVars>>

\* the number of times sub is in the list subs
Registrations(sub, subs) == Cardinality({i \in 1..Len(subs) : subs[i] = sub})

\* checkFiles' calls of VideoRecorded, one for each entry of r.subscribers
\* (lines 146-150)
Notify(cur) ==
  delivered' =
    [sub \in Subscribers |->
       [delivered[sub] EXCEPT ![cur] = @ + Registrations(sub, subscribers)]]

\* checkFiles, after muxFile: the subscribers are called, the converted file
\* is removed, and the loop goes to its next file (lines 146-158)
LoopPublish(s) ==
  /\ Running
  /\ loop[s].pc = "notify"
  /\ LET cur  == Head(loop[s].todo)
         rest == Tail(loop[s].todo)
     IN  /\ Notify(cur)
         /\ IF cur \in tsFiles
            THEN /\ tsFiles' = tsFiles \ {cur}
                 /\ pass' = [pass EXCEPT ![s] =
                               IF rest = <<>> THEN NoPass
                               ELSE [@ EXCEPT !.published = Append(@, cur),
                                              !.tsGone = @ \cup {cur}]]
                 /\ loop' = [loop EXCEPT ![s] =
                               [pc   |-> IF rest = <<>> THEN "test" ELSE "mux",
                                todo |-> rest]]
            ELSE /\ pass' = [pass EXCEPT ![s] = NoPass]
                 /\ loop' = [loop EXCEPT ![s] = [pc |-> "test", todo |-> <<>>]]
                 /\ UNCHANGED tsFiles
  /\ UNCHANGED <<cancelFunc, cmd, subscribers, started, alive, cancelled,
                 rawFiles, written, cpc, clist, lcancel, lcmd, converted,
                 stopReturned>>
  /\ UNCHANGED <<storeVars, pureVars>>

\* deleteFiles' loop over its listing (lines 105-114): os.Remove fails on a
\* file that is no longer there, and the files before it are gone by then
RECURSIVE deleteLoop(_, _)
deleteLoop(list, files) ==
  IF list = <<>> THEN [files |-> files, err |-> FALSE]
  ELSE IF Head(list) \notin files THEN [files |-> files, err |-> TRUE]
  ELSE deleteLoop(Tail(list), files \ {Head(list)})

\* Start is called; deleteFiles lists the directory (lines 100-103).  o is
\* "ok" or "readDirErr".
StartList(o) ==
  /\ cpc = "idle"
  /\ started < MaxSessions
  /\ IF o = "ok"
     THEN /\ clist' = Listing(rawFiles)
          /\ cpc' = "start_purge"
     ELSE UNCHANGED <<clist, cpc>>
  /\ UNCHANGED <<cancelFunc, cmd, subscribers, started, alive, cancelled,
                 rawFiles, tsFiles, written, loop, lcancel, lcmd, pass,
                 converted, delivered, stopReturned>>
  /\ UNCHANGED <<storeVars, pureVars>>

\* deleteFiles as it would be if it removed nothing
StartPurge_keepsFiles ==
  /\ cpc = "start_purge"
  /\ cpc' = "start_launch"
  /\ clist' = <<>>
  /\ UNCHANGED <<cancelFunc, cmd, subscribers, started, alive, cancelled,
                 rawFiles, tsFiles, written, loop, lcancel, lcmd, pass,
                 converted, delivered, stopReturned>>
  /\ UNCHANGED <<storeVars, pureVars>>

\* deleteFiles removes the files it listed (lines 105-116); Start returns
\* its error if it has one (lines 172-174)
StartPurge ==
  /\ cpc = "start_purge"
  /\ LET d == deleteLoop(clist, rawFiles)
     IN  /\ rawFiles' = d.files
         /\ cpc' = IF d.err THEN "idle" ELSE "start_launch"
  /\ clist' = <<>>
  /\ UNCHANGED <<cancelFunc, cmd, subscribers, started, alive, cancelled,
                 tsFiles, written, loop, lcancel, lcmd, pass, converted,
                 delivered, stopReturned>>
  /\ UNCHANGED <<storeVars, pureVars>>

\* Start as it would be if it set the handle fields before it knew that
\* cmd.Start had succeeded
StartLaunch_handleFirst(o) ==
  /\ cpc = "start_launch"
  /\ cpc' = "idle"
  /\ cancelFunc' = started + 1
  /\ cmd' = started + 1
  /\ IF o = "ok"
     THEN LET s == started + 1
          IN  /\ started' = s
              /\ alive' = alive \cup {s}
              /\ loop' = [loop EXCEPT ![s] = [pc |-> "test", todo |-> <<>>]]
     ELSE UNCHANGED <<started, alive, loop>>
  /\ UNCHANGED <<subscribers, cancelled, rawFiles, tsFiles, written, clist,
                 lcancel, lcmd, pass, converted, delivered, stopReturned>>
  /\ UNCHANGED <<storeVars, pureVars>>

\* Start launches raspivid, sets the handle fields and starts the drain loop
\* (lines 176-197).  o is "ok" or "startErr" (cmd.Start fails).
StartLaunch(o) ==
  /\ cpc = "start_launch"
  /\ cpc' = "idle"
  /\ IF o = "ok"
     THEN LET s == started + 1
          IN  /\ started' = s
              /\ alive' = alive \cup {s}
              /\ cancelFunc' = s
              /\ cmd' = s
              /\ loop' = [loop EXCEPT ![s] = [pc |-> "test", todo |-> <<>>]]
     ELSE UNCHANGED <<started, alive, cancelFunc, cmd, loop>>
  /\ UNCHANGED <<subscribers, cancelled, rawFiles, tsFiles, written, clist,
                 lcancel, lcmd, pass, converted, delivered, stopReturned>>
  /\ UNCHANGED <<storeVars, pureVars>>

\* AddSubscriber (lines 211-213); the callers register a subscriber once
AddSubscriber(sub) ==
  /\ cpc = "idle"
  /\ sub \notin Range(subscribers)
  /\ subscribers' = Append(subscribers, sub)
  /\ UNCHANGED <<cancelFunc, cmd, started, alive, cancelled, rawFiles, tsFiles,
                 written, loop, cpc, clist, lcancel, lcmd, pass, converted,
                 delivered, stopReturned>>
  /\ UNCHANGED <<storeVars, pureVars>>

\* Stop is called: it copies the handle fields and clears them (lines 201-202)
StopClear ==
  /\ cpc = "idle"
  /\ lcancel' = cancelFunc
  /\ lcmd' = cmd
  /\ cancelFunc' = Nil
  /\ cmd' = Nil
  /\ cpc' = "stop_cancel"
  /\ UNCHANGED <<subscribers, started, alive, cancelled, rawFiles, tsFiles,
                 written, loop, clist, pass, converted, delivered,
                 stopReturned>>
  /\ UNCHANGED <<storeVars, pureVars>>

\* Stop calls cancelFunc (line 203): calling a nil func is a run-time panic
StopCancel ==
  /\ cpc = "stop_cancel"
  /\ IF lcancel = Nil
     THEN /\ cpc' = "panic"
          /\ UNCHANGED cancelled
     ELSE /\ cancelled' = cancelled \cup {lcancel}
          /\ cpc' = "stop_wait"
  /\ UNCHANGED <<cancelFunc, cmd, subscribers, started, alive, rawFiles,
                 tsFiles, written, loop, clist, lcancel, lcmd, pass, converted,
                 delivered, stopReturned>>
  /\ UNCHANGED <<storeVars, pureVars>>

\* Stop as it would be if it returned without cmd.Wait
StopWait_noWait ==
  /\ cpc = "stop_wait"
  /\ stopReturned' = stopReturned \cup {lcmd}
  /\ cpc' = "idle"
  /\ lcancel' = Nil
  /\ lcmd' = Nil
  /\ UNCHANGED <<cancelFunc, cmd, subscribers, started, alive, cancelled,
                 rawFiles, tsFiles, written, loop, clist, pass, converted,
                 delivered>>
  /\ UNCHANGED <<storeVars, pureVars>>

\* Stop's cmd.Wait (line 204) returns when the process has exited
StopWait ==
  /\ cpc = "stop_wait"
  /\ lcmd \notin alive
  /\ stopReturned' = stopReturned \cup {lcmd}
  /\ cpc' = "idle"
  /\ lcancel' = Nil
  /\ lcmd' = Nil
  /\ UNCHANGED <<cancelFunc, cmd, subscribers, started, alive, cancelled,
                 rawFiles, tsFiles, written, loop, clist, pass, converted,
                 delivered>>
  /\ UNCHANGED <<storeVars, pureVars>>

\* raspivid closes the chunk it was writing and begins the next (line 185).
\* A chunk is known by its number; a number stands for one file, written once.
CaptureWrite(s) ==
  /\ s \in alive
  /\ written < MaxChunks
  /\ written' = written + 1
  /\ rawFiles' = rawFiles \cup {written + 1}
  /\ UNCHANGED <<cancelFunc, cmd, subscribers, started, alive, cancelled,
                 tsFiles, loop, cpc, clist, lcancel, lcmd, pass, converted,
                 delivered, stopReturned>>
  /\ UNCHANGED <<storeVars, pureVars>>

\* a raspivid process exits: killed because its context was cancelled
\* (exec.CommandContext, line 187), or on its own
ProcExit(s) ==
  /\ s \in alive
  /\ alive' = alive \ {s}
  /\ UNCHANGED <<cancelFunc, cmd, subscribers, started, cancelled, rawFiles,
                 tsFiles, written, loop, cpc, clist, lcancel, lcmd, pass,
                 converted, delivered, stopReturned>>
  /\ UNCHANGED <<storeVars, pureVars>>

\* an empty store that nothing calls
StoreIdle ==
  /\ unsignedID = FALSE
  /\ segmentDir = {}
  /\ StoreInitLoaded({}, loadSegments({}))

RecInit ==
  /\ RecorderNew({})
  /\ StoreIdle
  /\ NoRequest
  /\ NoName

RecNext ==
  \/ \E o \in {"ok", "readDirErr"} : StartList(o)
  \/ StartPurge
  \/ \E o \in {"ok", "startErr"} : StartLaunch(o)
  \/ \E sub \in Subscribers : AddSubscriber(sub)
  \/ StopClear
  \/ StopCancel
  \/ StopWait
  \/ \E s \in Sessions : CaptureWrite(s)
  \/ \E s \in Sessions : ProcExit(s)
  \/ \E s \in Sessions : LoopExit(s)
  \/ \E s \in Sessions : LoopList(s)
  \/ \E s \in Sessions, o \in {"ok", "fail", "removeErr"} : LoopMuxFile(s, o)
  \/ \E s \in Sessions : LoopPublish(s)

RecSpec == RecInit /\ [][RecNext]_vars

\* ------------------------------------------------------------------------
\* server: Start and Stop
\* ------------------------------------------------------------------------
\* serverImpl.Start calls recorder.Start once, on the recorder it has just
\* made (lines 90-94).  When that call fails the server goes on with the mock
\* recorder, and this recorder is left as it is.
ServerStartRecorder ==
  /\ started = 0
  /\ subscribers = <<>>
  /\ \/ \E o \in {"ok", "readDirErr"} : StartList(o)
     \/ StartPurge
     \/ \E o \in {"ok", "startErr"} : StartLaunch(o)

\* serverImpl.Start registers the store once recorder.Start has returned
\* without an error (line 104)
ServerAddSubscriber ==
  /\ started = 1
  /\ subscribers = <<>>
  /\ AddSubscriber("storage")

\* serverImpl.Stop (lines 114-120), called on a server that Start has set up
ServerStop ==
  /\ subscribers # <<>>
  /\ \/ StopClear
     \/ StopCancel
     \/ StopWait

ServerInit == RecInit

ServerNext ==
  \/ ServerStartRecorder
  \/ ServerAddSubscriber
  \/ ServerStop
  \/ \E s \in Sessions : CaptureWrite(s)
  \/ \E s \in Sessions : ProcExit(s)
  \/ \E s \in Sessions : LoopExit(s)
  \/ \E s \in Sessions : LoopList(s)
  \/ \E s \in Sessions, o \in {"ok", "fail", "removeErr"} : LoopMuxFile(s, o)
  \/ \E s \in Sessions : LoopPublish(s)

ServerSpec == ServerInit /\ [][ServerNext]_vars

\* ------------------------------------------------------------------------
\* server/recorder: one session in which ffmpeg cannot convert one chunk
\* ------------------------------------------------------------------------
\* the chunk ffmpeg fails on whenever it is given it: the second one written
BadChunk == CHOOSE c \in Chunks : Cardinality({d \in Chunks : d < c}) = 1

\* muxFile where ffmpeg fails on BadChunk (line 84) and converts any other
\* chunk
DrainMux(s) ==
  /\ loop[s].pc = "mux"
  /\ LoopMuxFile(s, IF Head(loop[s].todo) = BadChunk THEN "fail" ELSE "ok")

DrainNext ==
  \/ ServerStartRecorder
  \/ ServerAddSubscriber
  \/ ServerStop
  \/ \E s \in Sessions : CaptureWrite(s)
  \/ \E s \in Sessions : ProcExit(s)
  \/ \E s \in Sessions : LoopExit(s)
  \/ \E s \in Sessions : LoopList(s)
  \/ \E s \in Sessions : DrainMux(s)
  \/ \E s \in Sessions : LoopPublish(s)

\* checkFilesLoop runs a pass every second for as long as it finds r.cmd set
\* (lines 162-168): every step of a drain loop that can be taken is taken
DrainFairness ==
  \A s \in Sessions :
    /\ WF_vars(LoopExit(s))
    /\ WF_vars(LoopList(s))
    /\ WF_vars(DrainMux(s))
    /\ WF_vars(LoopPublish(s))

DrainSpec == ServerInit /\ [][DrainNext]_vars /\ DrainFairness

\* ------------------------------------------------------------------------
\* server: serveLivePlaylist
\* ------------------------------------------------------------------------
\* three decimal digits of n < 1000
Pad3(n) == <<Digits[(n \div 100) + 1], Digits[((n \div 10) % 10) + 1],
             Digits[(n % 10) + 1]>>

\* fmt's %f of float64(d) / float64(time.Second) for a duration of ms whole
\* milliseconds: the seconds, a point, and six decimals
FormatSeconds(ms) ==
  FormatNat(ms \div SecondMs) \o <<".">> \o Pad3(ms % SecondMs)
      \o <<"0", "0", "0">>

\* serveLivePlaylist's first loop (lines 144-152) from segment i on, acc
\* being [targetDuration, firstSegmentID] so far
RECURSIVE scanLoop(_, _, _)
scanLoop(segs, i, acc) ==
  IF i > Len(segs) THEN acc
  ELSE scanLoop(segs, i + 1,
         [targetDuration |->
            IF segs[i].Duration > acc.targetDuration THEN segs[i].Duration
            ELSE acc.targetDuration,
          firstSegmentID |->
            IF acc.firstSegmentID = 0 THEN segs[i].ID
            ELSE acc.firstSegmentID])

\* targetDuration and firstSegmentID after the first loop (lines 142-152)
Scan(segs) == scanLoop(segs, 1, [targetDuration |-> 0, firstSegmentID |-> 0])

\* int(targetDuration / time.Second) as it would be rounded up
TargetDurationInt_ceil(targetDuration) ==
  (targetDuration + SecondMs - 1) \div SecondMs

\* int(targetDuration / time.Second) (line 161); the durations are not
\* negative
TargetDurationInt(targetDuration) == targetDuration \div SecondMs

\* the lines the second loop writes for segment (lines 167-174)
EntryLines(segment, prevSegmentID) ==
  (IF segment.ID # prevSegmentID + 1
   THEN <<<<"#EXT-X-DISCONTINUITY">>>> ELSE <<>>)
    \o <<<<"#EXTINF:">> \o FormatSeconds(segment.Duration) \o <<",">>,
         <<"segments/">> \o segment.Name>>

\* the second loop (lines 165-177) from segment i on.  The subtraction and
\* the addition of 1 cancel in any integer type, wrapping or not.
RECURSIVE entriesLoop(_, _, _)
entriesLoop(segs, i, prevSegmentID) ==
  IF i > Len(segs) THEN <<>>
  ELSE EntryLines(segs[i], prevSegmentID)
         \o entriesLoop(segs, i + 1, segs[i].ID)

\* the lines serveLivePlaylist writes for segs, sc being what its first loop
\* found (lines 160-177)
ManifestOf(segs, sc) ==
  <<<<"#EXTM3U">>,
    <<"#EXT-X-TARGETDURATION:">>
        \o FormatInt(TargetDurationInt(sc.targetDuration)),
    <<"#EXT-X-MEDIA-SEQUENCE:">> \o FormatInt(sc.firstSegmentID)>>
    \o entriesLoop(segs, 1, sc.firstSegmentID - 1)

\* serveLivePlaylist on the segments it has got (lines 142-177)
ServeLivePlaylist(txt) ==
  /\ manifest' = ManifestOf(window, Scan(window))
  /\ contentType' = IF txt THEN "text/plain"
                    ELSE "application/vnd.apple.mpegurl"
  /\ UNCHANGED window
  /\ UNCHANGED <<storeVars, recVars, rtVars>>

\* the durations of the segments of a window, in milliseconds
WindowDurations == {h * (SecondMs \div 2) : h \in 0..MaxHalfSeconds}

\* the segment of id i and duration d
WindowSegment(i, d) ==
  [ID |-> i, Name |-> SegmentName(1, d, i), Time |-> 1, Duration |-> d]

\* what LatestSegments may return: segments in ascending order of their ids
Windows ==
  UNION {{[k \in 1..Cardinality(ids) |->
             WindowSegment(Listing(ids)[k], d[Listing(ids)[k]])] :
            d \in [ids -> WindowDurations]} :
         ids \in {t \in SUBSET (0..MaxWindowID) : Cardinality(t) <= MaxWindow}}

PlaylistInit ==
  /\ window \in Windows
  /\ manifest = <<>>
  /\ contentType = ""
  /\ StoreIdle
  /\ RecorderNew({})
  /\ NoName

PlaylistNext == \E txt \in BOOLEAN : ServeLivePlaylist(txt)

PlaylistSpec == PlaylistInit /\ [][PlaylistNext]_vars

\* ------------------------------------------------------------------------
\* server/storage: a file name built by addSegment and parsed by the loader
\* ------------------------------------------------------------------------
\* addSegment generates the name of the segment (lines 158-165)
BuildName ==
  /\ fileName = <<>>
  /\ fileName' = SegmentName(fields.time, fields.durationMs, fields.id)
  /\ UNCHANGED <<fields, parsed>>
  /\ UNCHANGED <<storeVars, recVars, plVars>>

\* loadSegments hands the name to segmentFromFileName (line 86)
ParseName ==
  /\ fileName # <<>>
  /\ ~parsed.done
  /\ LET r == segmentFromFileName(fileName)
     IN  parsed' = [done |-> TRUE, err |-> r.err, segment |-> r.segment]
  /\ UNCHANGED <<fields, fileName>>
  /\ UNCHANGED <<storeVars, recVars, plVars>>

\* the numbers a name is built of: small ones, some of two digits, and the
\* recorder's duration
FieldValues == (0..MaxField) \cup {SegmentDurationMs}

RoundTripInit ==
  /\ fields \in [time : FieldValues, durationMs : FieldValues, id : FieldValues]
  /\ fileName = <<>>
  /\ parsed = NotParsed
  /\ StoreIdle
  /\ RecorderNew({})
  /\ NoRequest

RoundTripNext == BuildName \/ ParseName

RoundTripSpec == RoundTripInit /\ [][RoundTripNext]_vars

\* ------------------------------------------------------------------------
\* Properties of the segment store
\* ------------------------------------------------------------------------
\* the ids of a sequence of segments
IDs(segs) == [i \in 1..Len(segs) |-> segs[i].ID]

\* the integers from lo up to hi, in order
Run(lo, hi) == [i \in 1..(hi - lo + 1) |-> lo + i - 1]

\* the highest id of the index (0 when it is empty)
MaxIndexed ==
  IF DOMAIN segments = {} THEN 0
  ELSE CHOOSE m \in DOMAIN segments : \A i \in DOMAIN segments : i <= m

\* the index holds a run of ids without a gap
Contiguous ==
  /\ DOMAIN segments # {}
  /\ \A i \in DOMAIN segments : i = MaxIndexed \/ (i + 1) \in DOMAIN segments

BoundedRecency(k, r) ==
  /\ Len(r) <= k
  /\ \A i \in 1..Len(r) :
       /\ r[i].ID >= lastSegmentID - k + 1
       /\ r[i].ID <= lastSegmentID
       /\ r[i].ID \in DOMAIN segments
       /\ r[i] = segments[r[i].ID]
  /\ \A i \in 1..(Len(r) - 1) : r[i].ID < r[i + 1].ID

\* C3: in every state of the store and for every count k, LatestSegments(k)
\* returns at most k segments, each of them a segment of the index with an id
\* in [lastSegmentID-k+1, lastSegmentID], in strictly ascending order of id
\* (so an id the index does not hold is never in the result).
C3_BoundedRecency ==
  /\ \A k \in Counts : BoundedRecency(k, LatestSegments(k))
  /\ latest.called => BoundedRecency(latest.count, latest.result)

\* LatestSegments(3) has just returned two segments whose ids are not
\* neighbours: the id between them is not in the index
C3_Witness ==
  /\ latest.called
  /\ latest.count = 3
  /\ Len(latest.result) = 2
  /\ latest.result[2].ID = latest.result[1].ID + 2

C5_IndexedFilesComplete ==
  \A id \in DOMAIN segments :
    \E f \in segmentDir : f.name = segments[id].Name /\ f.full

\* C6: when AddSegment has returned an error, lastSegmentID and the index are
\* what they were when the call was made.
C6_FailedAddChangesNothing ==
  \A a \in Adders :
    ret[a] = "err" =>
      /\ lastSegmentID = entry[a].lastSegmentID
      /\ segments = entry[a].segments

\* an AddSegment call has failed in its copy, after another had succeeded:
\* the file it created is in the directory, not whole, and not in the index
C6_Witness ==
  /\ ret[Writer] = "err"
  /\ assigned # <<>>
  /\ \E f \in segmentDir :
       /\ ~f.full
       /\ f.name = asegment[Writer].Name
       /\ asegment[Writer].ID \notin DOMAIN segments

\* ------------------------------------------------------------------------
\* Properties of the capture monitor
\* ------------------------------------------------------------------------
\* the drain loop of session s is in the middle of a pass
InPass(s) == loop[s].pc \in {"mux", "notify"}

\* the newest of the chunks a pass listed
Newest(p) == p.listed[Len(p.listed)]

\* what holds of a pass p while it runs, whatever the order in which it
\* removes the raw chunks
PassInOrder(p) ==
  /\ Len(p.listed) >= 2
  /\ Len(p.converted) < Len(p.listed)
  /\ p.converted = SubSeq(p.listed, 1, Len(p.converted))
  /\ Len(p.published) <= Len(p.converted)
  /\ p.published = SubSeq(p.converted, 1, Len(p.published))
  /\ p.tsGone \subseteq Range(p.published)
  /\ Newest(p) \notin Range(p.converted) \cup Range(p.published)
                        \cup p.rawGone \cup p.tsGone

\* the step in which the drain loop of session s ends a pass without an error
PassSucceeds(s) ==
  /\ loop[s].pc = "notify"
  /\ loop'[s].pc = "test"
  /\ Head(loop[s].todo) \in tsFiles

\* at the end of a pass without an error every listed chunk but the newest
\* has been converted, published and removed, raw and converted file
PassComplete(s) ==
  LET p    == pass[s]
      cur  == Head(loop[s].todo)
      done == SubSeq(p.listed, 1, Len(p.listed) - 1)
  IN  /\ Append(p.published, cur) = done
      /\ p.converted = done
      /\ p.rawGone = Range(done)
      /\ p.tsGone \cup {cur} = Range(done)
      /\ delivered' # delivered \/ subscribers = <<>>

\* a drain loop that finds fewer than two raw chunks starts no pass: it stays
\* where it is or ends
PassIdle(s) ==
  (loop[s].pc = "test" /\ Cardinality(rawFiles) < 2)
    => loop'[s].pc \in {"test", "exited"}

C8_AtMostOnce ==
  \A sub \in Subscribers, c \in Chunks :
    /\ delivered[sub][c] <= 1
    /\ delivered[sub][c] >= 1 => c \in converted

\* a chunk has been delivered once while the drain loops of two sessions run
\* side by side, the first session stopped and the second started
C8_Witness ==
  /\ started = 2
  /\ stopReturned # {}
  /\ \A s \in {1, 2} : loop[s].pc \in {"test", "mux", "notify"}
  /\ \E c \in Chunks : delivered["storage"][c] = 1

\* C9: a Stop called when no session is set (a second Stop, or a Stop before
\* any Start) does nothing and does not crash.
C9_StopIsIdempotent ==
  ~(cpc = "panic" /\ lcancel = Nil)

\* C10: Stop clears the handle fields before it signals the cancellation, it
\* waits only once the cancellation is signalled, and it has returned only
\* for sessions whose process has exited.
C10_StopWaitsForExit ==
  /\ cpc = "stop_cancel" => (cmd = Nil /\ cancelFunc = Nil /\ lcancel \notin cancelled)
  /\ cpc = "stop_wait" => (cmd = Nil /\ cancelFunc = Nil /\ lcancel \in cancelled
                           /\ lcmd = lcancel)
  /\ \A s \in cancelled : cmd # s /\ cancelFunc # s
  /\ stopReturned \cap alive = {}

\* Stop has returned for a session it cancelled, and the session's drain
\* loop has not yet seen it
C10_Witness ==
  \E s \in stopReturned :
    /\ s \in cancelled
    /\ cpc = "idle"
    /\ loop[s].pc = "test"

\* ------------------------------------------------------------------------
\* Properties of the live playlist
\* ------------------------------------------------------------------------
\* a manifest has been written
Served == manifest # <<>>

\* the integer of the manifest's #EXT-X-TARGETDURATION line, in seconds
TargetWritten == Atoi(Tail(manifest[2])).val

\* the integer of the manifest's #EXT-X-MEDIA-SEQUENCE line
MediaSequenceWritten == Atoi(Tail(manifest[3])).val

\* the manifest's line of the k-th segment entry
EntryLine(k) ==
  Listing({i \in 1..Len(manifest) : manifest[i][1] = "segments/"})[k]

\* the number of segment entries of the manifest
NumEntries ==
  Cardinality({i \in 1..Len(manifest) : manifest[i][1] = "segments/"})

\* a discontinuity marker stands right before the k-th entry (its #EXTINF
\* line and its segment line)
MarkerBefore(k) == manifest[EntryLine(k) - 2] = <<"#EXT-X-DISCONTINUITY">>

\* C11, as the spec states it: the integer written in
\* #EXT-X-TARGETDURATION, in seconds, is no less than the duration of any
\* segment of the window the manifest lists.
C11_TargetBoundsDurations ==
  (Served /\ window # <<>>) =>
    \A i \in 1..Len(window) : window[i].Duration <= TargetWritten * SecondMs

\* C11, amended: the integer written in #EXT-X-TARGETDURATION is the greatest
\* duration of the window cut down to whole seconds: some segment's duration
\* begins with that many whole seconds, and every listed duration is less
\* than one second above it.
C11_TargetIsTruncatedMax ==
  (Served /\ window # <<>>) =>
    /\ \E i \in 1..Len(window) :
         window[i].Duration \div SecondMs = TargetWritten
    /\ \A i \in 1..Len(window) :
         window[i].Duration < (TargetWritten + 1) * SecondMs

\* a manifest has been written for a window of three segments of which the
\* longest lasts no whole number of seconds and is not the first
C11_Witness ==
  /\ Served
  /\ Len(window) = 3
  /\ \E i \in 2..3 :
       /\ window[i].Duration % SecondMs # 0
       /\ \A j \in 1..3 : window[j].Duration <= window[i].Duration
       /\ window[1].Duration < window[i].Duration

\* C12: the manifest has a discontinuity marker right before the entry of
\* the k-th segment of the window exactly when k is not the first and its id
\* is not the id before it plus one; no marker stands before the first entry.
C12_MarkersExactlyAtGaps ==
  Served =>
    /\ NumEntries = Len(window)
    /\ \A k \in 1..Len(window) :
         MarkerBefore(k) <=> (k > 1 /\ window[k].ID # window[k - 1].ID + 1)

\* C13: #EXT-X-MEDIA-SEQUENCE holds the id of the first segment of the
\* window; for an empty window the manifest is the three header lines with
\* media sequence 0 and target duration 0.
C13_MediaSequenceIsFirstID ==
  Served =>
    IF window = <<>>
    THEN MediaSequenceWritten = 0 /\ TargetWritten = 0 /\ Len(manifest) = 3
    ELSE MediaSequenceWritten = window[1].ID

\* ------------------------------------------------------------------------
\* Properties of the segment file names
\* ------------------------------------------------------------------------
\* C14: the name addSegment builds of a creation time in seconds, a duration
\* in milliseconds and an id, none of them negative, is parsed by
\* segmentFromFileName without an error into a Segment of that time, that
\* duration and that id (and of that name).
C14_NameRoundTrip ==
  parsed.done =>
    /\ ~parsed.err
    /\ parsed.segment.Time = fields.time
    /\ parsed.segment.Duration = fields.durationMs
    /\ parsed.segment.ID = fields.id
    /\ parsed.segment.Name = fileName

\* a name of three different numbers, of one, two and four digits, has been
\* built and parsed
C14_Witness ==
  /\ parsed.done
  /\ fields.time >= 10
  /\ fields.durationMs = SegmentDurationMs
  /\ fields.id \in 1..9
  /\ fields.time < fields.durationMs

\* ------------------------------------------------------------------------
\* Properties of the server's start
\* ------------------------------------------------------------------------
\* C15: the store is registered before the drain loop begins; no drain pass
\* runs with an empty list of subscribers; and a converted chunk whose file
\* is gone has been delivered to the store.
C15_RegisteredBeforeLoop ==
  /\ \A s \in Sessions : loop[s].pc # "none" => subscribers # <<>>
  /\ \A s \in Sessions : InPass(s) => subscribers # <<>>
  /\ \A c \in converted : c \in tsFiles \/ delivered["storage"][c] >= 1

\* C15, its first consequence alone: no drain pass runs with an empty list
\* of subscribers.
C15_NoPassWithoutSubscriber ==
  \A s \in Sessions : InPass(s) => subscribers # <<>>

\* C15, its second consequence alone: a converted chunk whose file is gone
\* has been delivered to the store.
C15_NoChunkLostUndelivered ==
  \A c \in converted : c \in tsFiles \/ delivered["storage"][c] >= 1

\* ------------------------------------------------------------------------
\* Properties of a session with a chunk that cannot be converted
\* ------------------------------------------------------------------------
\* chunk c is finished (a later chunk has been begun), the store is
\* registered and the session is on
ReadyToDrain(c) ==
  /\ c \in rawFiles
  /\ \E d \in rawFiles : d > c
  /\ subscribers # <<>>
  /\ cmd # Nil

\* C16: the chunk whose conversion fails every time is dropped from the
\* working directory, not kept to be converted again, and every other
\* finished chunk is converted and published by some drain pass (unless the
\* session is stopped first).
C16_FailedChunkDropped ==
  \A c \in Chunks :
    ReadyToDrain(c) ~>
      \/ cmd = Nil
      \/ (c = BadChunk /\ c \notin rawFiles)
      \/ (c # BadChunk /\ delivered["storage"][c] >= 1)

\* ------------------------------------------------------------------------
\* Properties of the sessions of the capture monitor
\* ------------------------------------------------------------------------
\* the sessions whose drain loop is running
LoopsRunning == {s \in Sessions : loop[s].pc \in {"test", "mux", "notify"}}

\* C17: at no time are two capture processes of the monitor alive, and at no
\* time are two drain loops running.
C17_OneLiveSession ==
  /\ Cardinality(alive) <= 1
  /\ Cardinality(LoopsRunning) <= 1

\* C17, of the drain loops alone.
C17_OneDrainLoop == Cardinality(LoopsRunning) <= 1

\* C18: once Stop has cleared the handle of a session and cancelled it, the
\* drain loop of that session begins no further pass: from its test of r.cmd
\* it can only go on waiting or end.
C18_NoPassAfterStop ==
  [][\A s \in Sessions :
       (s \in cancelled /\ loop[s].pc = "test")
         => loop'[s].pc \in {"test", "exited"}]_vars

\* ------------------------------------------------------------------------
\* server: Start on a directory a process before has left raw chunks in
\* ------------------------------------------------------------------------
\* the raw chunks left in the recorder directory; raspivid was killed, or
\* the program was, before the drain loop had taken them
Leftover == 1..MaxLeftover

PurgeInit ==
  /\ RecorderNew(Leftover)
  /\ StoreIdle
  /\ NoRequest
  /\ NoName

\* the server is started once (main calls server.Start once), as in
\* ServerSpec, on that directory
PurgeSpec == PurgeInit /\ [][ServerNext]_vars

\* ------------------------------------------------------------------------
\* Properties of Start
\* ------------------------------------------------------------------------
\* the step in which a Start call returns an error: deleteFiles has failed
\* on a file (lines 172-174), or cmd.Start has failed (lines 189-191)
StartFails ==
  /\ cpc \in {"start_purge", "start_launch"}
  /\ cpc' = "idle"
  /\ started' = started

\* the step in which the drain loop of session s is started
LoopStarted(s) == loop[s].pc = "none" /\ loop'[s].pc # "none"

\* C21: a Start call that returns an error, of the purge or of the launch,
\* leaves the handle fields as they were, so that a monitor that was idle
\* with no session handle is idle with no session handle after it, and it
\* starts no process and no drain loop; a drain loop is started only in the
\* step in which a launch has succeeded, the step that sets the handle
\* fields to the new session.
C21_FailedStartStaysIdle ==
  [][/\ StartFails =>
          /\ UNCHANGED <<cancelFunc, cmd, alive, loop>>
          /\ (cmd = Nil /\ cancelFunc = Nil) =>
                (cmd' = Nil /\ cancelFunc' = Nil)
     /\ \A s \in Sessions :
          LoopStarted(s) =>
            /\ cpc = "start_launch"
            /\ started' = s
            /\ s \in alive' \ alive
            /\ cmd' = s
            /\ cancelFunc' = s
            /\ loop'[s].pc = "test"]_vars

\* a Start call made on an idle monitor with no session handle is at its
\* purge, which is about to fail: a file it listed has been removed since by
\* the drain loop of the session before, which has not ended yet
C21_Witness ==
  /\ cpc = "start_purge"
  /\ cmd = Nil
  /\ cancelFunc = Nil
  /\ deleteLoop(clist, rawFiles).err
  /\ \E s \in Sessions : loop[s].pc \in {"mux", "notify"}

\* C22: the raw chunks that were in the directory before Start was called
\* are all gone when Start is about to launch raspivid and stay gone, and
\* the drain loop of the session Start creates never lists, converts or
\* publishes one of them.
C22_LeftoverNeverDrained ==
  /\ (cpc = "start_launch" \/ started > 0) => rawFiles \cap Leftover = {}
  /\ \A s \in Sessions :
       /\ Range(pass[s].listed) \cap Leftover = {}
       /\ Range(loop[s].todo) \cap Leftover = {}
  /\ converted \cap Leftover = {}
  /\ \A sub \in Subscribers : \A c \in Leftover : delivered[sub][c] = 0

\* Start has found raw chunks of a process before and has launched its
\* session, whose drain loop has converted a chunk and published it to the
\* store
C22_Witness ==
  /\ Leftover # {}
  /\ started = 1
  /\ \E c \in converted : delivered["storage"][c] > 0

\* ------------------------------------------------------------------------
\* Properties of the store's lock
\* ------------------------------------------------------------------------
\* the greatest of the ids the callers' last calls were given
MaxAssigned ==
  CHOOSE m \in {asegmentID[a] : a \in Adders} :
    \A a \in Adders : asegmentID[a] <= m

\* C19: the successful AddSegment calls are given ids that differ from one
\* another, and when the last call of every caller has succeeded, each of
\* their segments is in the index and lastSegmentID is the greatest of
\* their ids.
C19_ConcurrentAddsSerialized ==
  /\ \A i, j \in 1..Len(assigned) : i # j => assigned[i] # assigned[j]
  /\ (\A a \in Adders : apc[a] = "idle" /\ ret[a] = "ok") =>
       /\ \A a \in Adders :
            /\ asegmentID[a] \in DOMAIN segments
            /\ segments[asegmentID[a]] = asegment[a]
       /\ lastSegmentID = MaxAssigned

\* C20: a LatestSegments call made while an AddSegment call is between its
\* choice of the id and its commit sees lastSegmentID and the index as they
\* were when that call began; one made after the call has returned without
\* an error sees the new lastSegmentID and the index with the new segment.
C20_ReaderSeesBeforeOrAfter ==
  latest.called =>
    /\ latest.result = LatestSegments(latest.count)
    /\ apc[Writer] \in {"copy", "commit"} =>
         /\ lastSegmentID = entry[Writer].lastSegmentID
         /\ segments = entry[Writer].segments
         /\ asegmentID[Writer] \notin DOMAIN segments
    /\ (apc[Writer] = "idle" /\ ret[Writer] = "ok") =>
         /\ lastSegmentID = asegmentID[Writer]
         /\ segments = MapPut(entry[Writer].segments, asegmentID[Writer],
                              asegment[Writer])

\* LatestSegments has been called, and has returned segments, while an
\* AddSegment call had copied its file and was about to take the lock
C20_Witness ==
  /\ latest.called
  /\ latest.result # <<>>
  /\ apc[Writer] = "commit"

====
